---------------------------- MODULE Spec2Model ----------------------------
(***************************************************************************)
(* The ventilator monitor of VentGUI.py: the timer handler                 *)
(* MainWindow.updateData (breath detection, the three moving windows, the  *)
(* statistics emitted to the slots setPpeak / setVte / setPEEP) and the    *)
(* alarm settings dialog AlarmSettings (sliders, Confirm, Cancel, Home).   *)
(*                                                                         *)
(* Numbers.  A flow or pressure sample is a whole number.  Every value the *)
(* program derives by division (a tidal volume, a window average) is kept  *)
(* as an exact fraction <<n, d>> in lowest terms with d > 0, so the        *)
(* binary rounding of Python floats is not part of this model.             *)
(***************************************************************************)
EXTENDS Integers, Sequences, FiniteSets, TLC

(***************************************************************************)
(* Program constants                                                       *)
(***************************************************************************)
graphPoints == 100
movingWindowPpeak == 20
movingWindowPEEP == 5
movingWindowVte == 5
minCycleTicks == 20
statsEvery == 5
vteFactor == 2286
vteScale == 50
pPeakBarMaximum == 45
PEEPBarMaximum == 25
vteBarMaximum == 1000
vteCrossPoint == 500

(***************************************************************************)
(* Bounds of the model: how many timer ticks a run of each specification   *)
(* follows.                                                                *)
(***************************************************************************)
MaxTicks == 24
MaxTicksBreaths == 133
MaxTicksWire == 3
MaxTicksSim == 600
MaxTicksDecode == 1

(***************************************************************************)
(* Exact fractions                                                         *)
(***************************************************************************)
Abs(x) == IF x < 0 THEN -x ELSE x

RECURSIVE GCD(_, _)
GCD(a, b) == IF b = 0 THEN a ELSE GCD(b, a % b)

\* n / d in lowest terms, d > 0; gcd(n, d) is taken as gcd(d, n mod d),
\* which needs no -n
Norm(n, d) == LET g == GCD(d, n % d) IN <<n \div g, d \div g>>

Rat(k) == <<k, 1>>

RatAdd(a, b) ==
    LET g == GCD(a[2], b[2])
        l == (a[2] \div g) * b[2]
    IN  Norm(a[1] * (l \div a[2]) + b[1] * (l \div b[2]), l)

RatLess(a, b) == a[1] * b[2] < b[1] * a[2]

(***************************************************************************)
(* Python built-ins used by the program                                    *)
(***************************************************************************)
sum(arr) ==
    LET partial[i \in 0..Len(arr)] ==
            IF i = 0 THEN Rat(0) ELSE RatAdd(partial[i - 1], arr[i])
    IN  partial[Len(arr)]

max(arr) == CHOOSE x \in {arr[i] : i \in DOMAIN arr} :
                \A i \in DOMAIN arr : arr[i] <= x

\* round(x) to the nearest integer, a tie going to the even neighbour
round(q) ==
    LET fl == q[1] \div q[2]
        r  == q[1] % q[2]
    IN  IF 2 * r < q[2] THEN fl
        ELSE IF 2 * r > q[2] THEN fl + 1
        ELSE IF fl % 2 = 0 THEN fl ELSE fl + 1

RECURSIVE Pow10(_)
Pow10(k) == IF k = 0 THEN 1 ELSE 10 * Pow10(k - 1)

\* floatToStr(value, numDigits): the number the string shows
floatToStr(value, numDigits) ==
    Norm(round(<<value[1] * Pow10(numDigits), value[2]>>), Pow10(numDigits))

avgOfAllButLast(arr) ==
    IF Len(arr) = 0 THEN Rat(0)
    ELSE IF Len(arr) = 1 THEN arr[1]
    ELSE LET s == sum(SubSeq(arr, 1, Len(arr) - 1))
         IN  Norm(s[1], s[2] * (Len(arr) - 1))

avg(arr) ==
    IF Len(arr) = 0 THEN Rat(0)
    ELSE LET s == sum(arr) IN Norm(s[1], s[2] * Len(arr))

(***************************************************************************)
(* The moving-window append of updateData                                  *)
(*     if len(w) == size: w = w[1:]                                        *)
(*     w.append(v)                                                         *)
(***************************************************************************)
appendNoEviction(w, size, v) == Append(w, v)

appendEvictNewest(w, size, v) ==
    IF Len(w) = size THEN Append(SubSeq(w, 1, Len(w) - 1), v) ELSE Append(w, v)

appendWindow(w, size, v) ==
    IF Len(w) = size THEN Append(Tail(w), v) ELSE Append(w, v)

\* the shift of a graph buffer by plotPressure / plotFlow
plotShift(data, v) == Append(Tail(data), v)

tidalNoScale(instV, vteTimer) == Norm(vteFactor * instV, vteTimer)

\* 2286*(instV/(vteTimer*50))
tidalVolume(instV, vteTimer) == Norm(vteFactor * instV, vteTimer * vteScale)


(***************************************************************************)
(* State                                                                   *)
(***************************************************************************)
VARIABLES
    \* MainWindow: graph buffers and alarm settings
    pressData, flowData,
    pPeakMaxAlarm, vteMaxAlarm, vteMinAlarm, PEEPMaxAlarm,
    pPeakAlarmSet, vteAlarmSet, PEEPAlarmSet,
    \* MainWindow: variables that calculate the stats
    timeCount, prevFlow, prevPress, instV, vteTimer, insp, Exp,
    posPeaks, PEEP, expV, xSim,
    \* MainWindow: what the slots setPpeak / setVte / setPEEP left on screen
    valPpeak, valVte, valPeep,
    framePpeak, frameVte, framePEEP,
    iconPPeakAlarm, iconVteAlarm, iconPEEPAlarm,
    \* the signals of the latest run of updateData
    emitted,
    \* AlarmSettings (the modal dialog, while it is open)
    alarmSettings,
    pPeakChanged, PEEPChanged, vteMinChanged, vteMaxChanged,
    pPeakSlider, PEEPSlider, vteMinSlider, vteMaxSlider,
    btnConfirm, btnCancel,
    \* the sensors: samples of the breath under way not yet read
    pending,
    \* the sensors on the wire: the responses ser.read gave the latest tick,
    \* the exception that ended its updateData ("" if none), and whether
    \* the process is still there
    response, raised, running,
    \* history: ticks run so far, breaths finalized so far, the latest
    \* dialog operation
    ticks, finalized, lastUI

graphVars == <<pressData, flowData>>
alarmVars == <<pPeakMaxAlarm, vteMaxAlarm, vteMinAlarm, PEEPMaxAlarm,
               pPeakAlarmSet, vteAlarmSet, PEEPAlarmSet>>
statVars == <<timeCount, prevFlow, prevPress, instV, vteTimer, insp, Exp,
              posPeaks, PEEP, expV>>
screenVars == <<valPpeak, valVte, valPeep, framePpeak, frameVte, framePEEP,
                iconPPeakAlarm, iconVteAlarm, iconPEEPAlarm>>
dialogVars == <<alarmSettings, pPeakChanged, PEEPChanged, vteMinChanged,
                vteMaxChanged, pPeakSlider, PEEPSlider, vteMinSlider,
                vteMaxSlider, btnConfirm, btnCancel>>
wireVars == <<response, raised, running>>
vars == <<graphVars, alarmVars, statVars, xSim, screenVars, emitted,
          dialogVars, pending, wireVars, ticks, finalized, lastUI>>

\* what a text label shows: a fixed string, or a number
Text(s) == [str |-> s, num |-> Rat(0)]
Number(q) == [str |-> "", num |-> q]

NoStats == [stats |-> FALSE,
            Ppeak |-> Rat(0), PpeakInt |-> 0,
            Vte |-> Rat(0), VteInt |-> 0,
            PEEP |-> Rat(0), PEEPInt |-> 0]

NoResponse == [flow |-> <<>>, pressure |-> <<>>]

NoDialogOp == [op |-> "none", pending |-> <<>>]

\* the dialog does not exist: its fields are held at fixed values
DialogClosed ==
    /\ alarmSettings = FALSE
    /\ pPeakChanged = FALSE /\ PEEPChanged = FALSE
    /\ vteMinChanged = FALSE /\ vteMaxChanged = FALSE
    /\ pPeakSlider = 0 /\ PEEPSlider = 0
    /\ vteMinSlider = 0 /\ vteMaxSlider = 0
    /\ btnConfirm = FALSE /\ btnCancel = FALSE

\* MainWindow.__init__
Init ==
    /\ pressData = [i \in 1..graphPoints |-> 0]
    /\ flowData = [i \in 1..graphPoints |-> 0]
    /\ pPeakMaxAlarm = 45
    /\ vteMaxAlarm = 1000
    /\ vteMinAlarm = 0
    /\ PEEPMaxAlarm = 25
    /\ pPeakAlarmSet = FALSE
    /\ vteAlarmSet = FALSE
    /\ PEEPAlarmSet = FALSE
    /\ timeCount = 0
    /\ prevFlow = 0
    /\ prevPress = 0
    /\ instV = 0
    /\ vteTimer = 0
    /\ insp = FALSE
    /\ Exp = FALSE
    /\ posPeaks = <<>>
    /\ PEEP = <<>>
    /\ expV = <<>>
    /\ xSim = 0
    /\ response = NoResponse
    /\ raised = ""
    /\ running = TRUE
    /\ valPpeak = Text("ui") /\ valVte = Text("ui") /\ valPeep = Text("ui")
    /\ framePpeak = "ui" /\ frameVte = "ui" /\ framePEEP = "ui"
    /\ iconPPeakAlarm = "alarmnotset"
    /\ iconVteAlarm = "alarmnotset"
    /\ iconPEEPAlarm = "alarmnotset"
    /\ emitted = NoStats
    /\ DialogClosed
    /\ pending = <<>>
    /\ ticks = 0
    /\ finalized = 0
    /\ lastUI = NoDialogOp

(***************************************************************************)
(* The slots of the statistics signals                                     *)
(***************************************************************************)
\* value > maxAlarm
aboveMax(value, maxAlarm) == RatLess(Rat(maxAlarm), value)

\* value < minAlarm or value > maxAlarm
outsideRange(value, minAlarm, maxAlarm) ==
    RatLess(value, Rat(minAlarm)) \/ RatLess(Rat(maxAlarm), value)

setPpeakUnguarded(value) ==
    /\ valPpeak' = Number(floatToStr(value, 1))
    /\ IF aboveMax(value, pPeakMaxAlarm)
       THEN framePpeak' = "alarmStyle" /\ iconPPeakAlarm' = "alarmon"
       ELSE framePpeak' = "normalStyle" /\ iconPPeakAlarm' = "alarmset"

setPpeak(value) ==
    IF pPeakAlarmSet
    THEN /\ valPpeak' = Number(floatToStr(value, 1))
         /\ IF aboveMax(value, pPeakMaxAlarm)
            THEN framePpeak' = "alarmStyle" /\ iconPPeakAlarm' = "alarmon"
            ELSE framePpeak' = "normalStyle" /\ iconPPeakAlarm' = "alarmset"
    ELSE /\ valPpeak' = Text("--")
         /\ UNCHANGED <<framePpeak, iconPPeakAlarm>>

setVteLatched(value) ==
    IF vteAlarmSet
    THEN /\ valVte' = Number(floatToStr(value, 0))
         /\ IF outsideRange(value, vteMinAlarm, vteMaxAlarm)
               \/ frameVte = "alarmStyle"
            THEN frameVte' = "alarmStyle" /\ iconVteAlarm' = "alarmon"
            ELSE frameVte' = "normalStyle" /\ iconVteAlarm' = "alarmset"
    ELSE /\ valVte' = Text("---")
         /\ UNCHANGED <<frameVte, iconVteAlarm>>

setVte(value) ==
    IF vteAlarmSet
    THEN /\ valVte' = Number(floatToStr(value, 0))
         /\ IF outsideRange(value, vteMinAlarm, vteMaxAlarm)
            THEN frameVte' = "alarmStyle" /\ iconVteAlarm' = "alarmon"
            ELSE frameVte' = "normalStyle" /\ iconVteAlarm' = "alarmset"
    ELSE /\ valVte' = Text("---")
         /\ UNCHANGED <<frameVte, iconVteAlarm>>

setPEEP(value) ==
    IF PEEPAlarmSet
    THEN /\ valPeep' = Number(floatToStr(value, 1))
         /\ IF aboveMax(value, PEEPMaxAlarm)
            THEN framePEEP' = "alarmStyle" /\ iconPEEPAlarm' = "alarmon"
            ELSE framePEEP' = "normalStyle" /\ iconPEEPAlarm' = "alarmset"
    ELSE /\ valPeep' = Text("--")
         /\ UNCHANGED <<framePEEP, iconPEEPAlarm>>

(***************************************************************************)
(* MainWindow.updateData, from the sample on: breath detection, the graph  *)
(* slots, the peak window, and the statistics emitted with their slots     *)
(***************************************************************************)
cycleLongEnoughFrom20(timer) == timer >= minCycleTicks

\* vteTimer > 20: the cycle is not too small
cycleLongEnough(timer) == timer > minCycleTicks

upwardCrossingStrict(flow, prev) == flow > 0 /\ prev < 0

upwardCrossingOnAnyInflow(flow, prev) == flow >= 0

\* flow>=0 and self.prevFlow<0: inspiration starts
upwardCrossing(flow, prev) == flow >= 0 /\ prev < 0

downwardCrossingStrict(flow, prev) == flow < 0 /\ prev > 0

\* flow<0 and self.prevFlow>=0: expiration starts
downwardCrossing(flow, prev) == flow < 0 /\ prev >= 0

peepSampleOfThisTick(prev, pressure) == pressure

\* self.PEEP.append(self.prevPress), ahead of self.prevPress = pressure
peepSample(prev, pressure) == prev

cycleResetOnFinalize(up, finalize) == finalize

\* instV, vteTimer, insp and Exp are reset under the outer if alone
cycleReset(up, finalize) == up

accumulateFlow(acc, flow) == acc + flow

\* self.instV += -1*flow
accumulate(acc, flow) == acc + (-1) * flow

inspOnDownwardKept(was) == was

\* self.insp = False in the block of the downward crossing
inspOnDownward(was) == FALSE

peakBufferBeforeShift(before, after) == before

\* max(self.pressData) runs after newPress.emit(pressure), a direct call
\* of plotPressure: the buffer already holds this tick's sample
peakBuffer(before, after) == after

peakRecordedOnEmission(emitting) == emitting

\* the append to posPeaks stands outside the if on timeCount: every call
peakRecorded(emitting) == TRUE

updateData(flow, pressure) ==
    LET up == upwardCrossing(flow, prevFlow)
        finalize == up /\ cycleLongEnough(vteTimer)
        reset == cycleReset(up, finalize)
        down == downwardCrossing(flow, prevFlow)
        Exp1 == IF down THEN TRUE ELSE IF reset THEN FALSE ELSE Exp
        insp1 == IF down THEN inspOnDownward(insp)
                 ELSE IF reset THEN TRUE ELSE insp
        instV1 == IF reset THEN 0 ELSE instV
        vteTimer1 == IF reset THEN 0 ELSE vteTimer
        emitting == timeCount + 1 > statsEvery
    IN  /\ PEEP' = IF finalize
                   THEN appendWindow(PEEP, movingWindowPEEP,
                                     Rat(peepSample(prevPress, pressure)))
                   ELSE PEEP
        /\ expV' = IF finalize
                   THEN appendWindow(expV, movingWindowVte,
                                     tidalVolume(instV, vteTimer))
                   ELSE expV
        /\ finalized' = IF finalize THEN finalized + 1 ELSE finalized
        /\ insp' = insp1
        /\ Exp' = Exp1
        /\ instV' = IF Exp1 THEN accumulate(instV1, flow) ELSE instV1
        /\ vteTimer' = IF Exp1 THEN vteTimer1 + 1 ELSE vteTimer1
        /\ prevPress' = pressure
        /\ prevFlow' = flow
        /\ pressData' = plotShift(pressData, pressure)
        /\ flowData' = plotShift(flowData, flow)
        /\ posPeaks' = IF peakRecorded(emitting)
                       THEN appendWindow(posPeaks, movingWindowPpeak,
                                         Rat(max(peakBuffer(pressData,
                                                            pressData'))))
                       ELSE posPeaks
        /\ IF emitting
           THEN /\ emitted' = [stats |-> TRUE,
                               Ppeak |-> avg(posPeaks'),
                               PpeakInt |-> round(avg(posPeaks')),
                               Vte |-> avg(expV'),
                               VteInt |-> round(avg(expV')),
                               PEEP |-> avg(PEEP'),
                               PEEPInt |-> round(avg(PEEP'))]
                /\ setPpeak(emitted'.Ppeak)
                /\ setVte(emitted'.Vte)
                /\ setPEEP(emitted'.PEEP)
                /\ timeCount' = 0
           ELSE /\ emitted' = NoStats
                /\ timeCount' = timeCount + 1
                /\ UNCHANGED screenVars

(***************************************************************************)
(* The sensors.  A breath arrives as a wave of samples <<flow, pressure>>: *)
(* n samples of expiration, the first with flow -f1, the others with flow  *)
(* -f, at pressure p but for the last at pEnd, then one sample of          *)
(* inspiration <<fi, pi>>.  The longest breath of Breaths has a second     *)
(* sample of inspiration.                                                  *)
(***************************************************************************)
Rep(n, s) == [i \in 1..n |-> s]

Wave(n, f1, f, p, pEnd, fi, pi) ==
    <<<<-f1, p>>>> \o Rep(n - 2, <<-f, p>>) \o <<<<-f, pEnd>>, <<fi, pi>>>>

Breaths == { Wave(20, 10, 10, 8, 5, 6, 20),
             Wave(21, 10, 10, 8, 5, 6, 20),
             Wave(21, 14, 12, 9, 7, 4, 30),
             Wave(40, 10, 10, 8, 6, 0, 18) \o <<<<3, 12>>>> }

FewBreaths == { Wave(21, 10, 10, 8, 5, 6, 20),
                Wave(21, 26, 24, 50, 30, 4, 60) }

\* one timer tick with REALSENSORS: get_flow, get_pressure, then the rest
sensorTick(waves, limit) ==
    /\ running
    /\ ticks < limit
    /\ \E w \in (IF pending = <<>> THEN waves ELSE {pending}) :
          /\ pending' = Tail(w)
          /\ updateData(w[1][1], w[1][2])
    /\ ticks' = ticks + 1
    /\ UNCHANGED <<alarmVars, xSim, wireVars, dialogVars, lastUI>>

TickBreaths == sensorTick(Breaths, MaxTicksBreaths)

NextBreaths == TickBreaths

SpecBreaths == Init /\ [][NextBreaths]_vars

(***************************************************************************)
(* The sensors on the wire: get_flow and get_pressure over the bytes that  *)
(* ser.read returned.  A read that times out returns the bytes that came,  *)
(* fewer than asked for, possibly none.                                    *)
(***************************************************************************)
flowResponseLength == 8
pressureResponseLength == 6

\* data[::-1]
reversed(data) == [i \in 1..Len(data) |-> data[Len(data) + 1 - i]]

\* data[a:b], which ends where data ends
slice(data, a, b) == SubSeq(data, a + 1, IF b < Len(data) THEN b ELSE Len(data))

\* int(bytes.hex(), 16) of bytes that are not empty
intOfHex(bytes) ==
    LET v[i \in 0..Len(bytes)] ==
            IF i = 0 THEN 0 ELSE v[i - 1] * 256 + bytes[i]
    IN  v[Len(bytes)]

signedCountAsSignAndMagnitude(flow) ==
    IF Len(flow) = 4 /\ flow[1] >= 128
    THEN - intOfHex(<<flow[1] - 128>> \o Tail(flow))
    ELSE intOfHex(flow)

\* F = int(flow.hex(),16), then F -= 2**32 if F >= 2**31.  F >= 2**31
\* exactly when flow has four bytes and the first is >= 128, and F - 2**32
\* is then the same sum with 256 taken off the first byte; it is formed that
\* way because F itself can lie beyond the integers of the model checker.
signedCount(flow) ==
    IF Len(flow) = 4 /\ flow[1] >= 128
    THEN intOfHex(<<flow[1] - 256>> \o Tail(flow))
    ELSE intOfHex(flow)

\* how a call ends: with a value, or with an exception
Returned(q) == [raised |-> "", value |-> q]
Raised(e) == [raised |-> e, value |-> Rat(0)]

RatNeg(a) == <<-a[1], a[2]>>

\* a * b, cancelling across before multiplying
RatMul(a, b) ==
    LET g == GCD(Abs(a[1]), b[2])
        h == GCD(Abs(b[1]), a[2])
    IN  Norm((a[1] \div g) * (b[1] \div h), (a[2] \div h) * (b[2] \div g))

\* get_flow after ser.read(8) returned data; int('', 16) raises ValueError
get_flow(data) ==
    LET reverse_data == reversed(data)
        flow == slice(reverse_data, 1, 5)
    IN  IF flow = <<>>
        THEN Raised("ValueError")
        ELSE Returned(Norm(signedCount(flow), 1000))

\* get_pressure after ser.read(6) returned data:
\* P = 1.01972*(((Dp-1638)/32.7675)-200)
get_pressure(data) ==
    LET reverse_data == reversed(data)
        pres == slice(reverse_data, 1, 3)
        Dp == intOfHex(pres)
    IN  IF pres = <<>>
        THEN Raised("ValueError")
        ELSE Returned(RatMul(Norm(101972, 100000),
                             RatAdd(Norm((Dp - 1638) * 10000, 327675),
                                    RatNeg(Rat(200)))))

\* responses to the flow command: -10 l/min and 6 l/min in full, the first
\* cut after 7 and after 6 bytes, a single byte, and nothing
FlowResponses ==
    { <<1, 16, 4, 240, 216, 255, 255, 40>>,
      <<1, 16, 4, 112, 23, 0, 0, 40>>,
      <<1, 16, 4, 240, 216, 255, 255>>,
      <<1, 16, 4, 240, 216, 255>>,
      <<1>>,
      <<>> }

\* responses to the pressure command: counts 8449 and 9733 in full (8.01
\* and 20.0 cmH2O), the first cut after 3 bytes, and nothing
PressureResponses ==
    { <<1, 7, 2, 1, 33, 232>>,
      <<1, 7, 2, 5, 38, 232>>,
      <<1, 7, 2>>,
      <<>> }

\* the whole part of a value: the graph buffers and the breath detector of
\* this model hold whole numbers, and q < 0 exactly when Whole(q) < 0
Whole(q) == q[1] \div q[2]

\* one timer tick with REALSENSORS, from the bytes on: an exception of
\* get_flow or get_pressure leaves updateData before anything is assigned,
\* and PyQt then either goes on (the exception is printed) or ends the
\* process, by its version and the exception hook
wireTick(flows, pressures, limit) ==
    /\ running
    /\ ticks < limit
    /\ \E fd \in flows, pd \in pressures :
          LET F == get_flow(fd)
              P == get_pressure(pd)
          IN  IF F.raised # ""
              THEN /\ response' = [flow |-> fd, pressure |-> <<>>]
                   /\ raised' = F.raised
                   /\ running' \in BOOLEAN
                   /\ emitted' = NoStats
                   /\ UNCHANGED <<graphVars, statVars, screenVars, finalized>>
              ELSE IF P.raised # ""
              THEN /\ response' = [flow |-> fd, pressure |-> pd]
                   /\ raised' = P.raised
                   /\ running' \in BOOLEAN
                   /\ emitted' = NoStats
                   /\ UNCHANGED <<graphVars, statVars, screenVars, finalized>>
              ELSE /\ response' = [flow |-> fd, pressure |-> pd]
                   /\ raised' = ""
                   /\ running' = TRUE
                   /\ updateData(Whole(F.value), Whole(P.value))
    /\ ticks' = ticks + 1
    /\ UNCHANGED <<alarmVars, xSim, dialogVars, pending, lastUI>>

TickWire == wireTick(FlowResponses, PressureResponses, MaxTicksWire)

NextWire == TickWire

SpecWire == Init /\ [][NextWire]_vars

\* for the decoding alone: every flow response in full whose four bytes of
\* count, lowest first on the wire, are among Bytes
Bytes == {0, 127, 128, 255}

FlowFrames ==
    { <<1, 16, 4, b0, b1, b2, b3, 40>> : b0, b1, b2, b3 \in Bytes }

PressureFrames == { <<1, 7, 2, 1, 33, 232>> }

TickDecode == wireTick(FlowFrames, PressureFrames, MaxTicksDecode)

NextDecode == TickDecode

SpecDecode == Init /\ [][NextDecode]_vars

(***************************************************************************)
(* The synthetic source, the branch of updateData that runs when           *)
(* REALSENSORS is False: cosine waves of period 100 ticks with noise.      *)
(* cos20 and cos5 hold the whole parts of 20 * math.cos(x / 50 * math.pi)  *)
(* and of 5 * math.cos(x / 50 * math.pi) for x = 0..99, as the floats come *)
(* out.  The whole part of the flow with noise in [-3, 3] is the whole     *)
(* part of the cosine term, - 10, + a whole number of -3..3, and it is < 0 *)
(* exactly when the flow is; likewise the pressure with -6..6.             *)
(***************************************************************************)
cos20 ==
    << 20, 19, 19, 19, 19, 19, 18, 18, 17, 16,
       16, 15, 14, 13, 12, 11, 10, 9, 8, 7,
       6, 4, 3, 2, 1, 0, -2, -3, -4, -5,
       -7, -8, -9, -10, -11, -12, -13, -14, -15, -16,
       -17, -17, -18, -19, -19, -20, -20, -20, -20, -20,
       -20, -20, -20, -20, -20, -20, -19, -19, -18, -17,
       -17, -16, -15, -14, -13, -12, -11, -10, -9, -8,
       -7, -5, -4, -3, -2, -1, 1, 2, 3, 4,
       6, 7, 8, 9, 10, 11, 12, 13, 14, 15,
       16, 16, 17, 18, 18, 19, 19, 19, 19, 19 >>

cos5 ==
    << 5, 4, 4, 4, 4, 4, 4, 4, 4, 4,
       4, 3, 3, 3, 3, 2, 2, 2, 2, 1,
       1, 1, 0, 0, 0, 0, -1, -1, -1, -2,
       -2, -2, -3, -3, -3, -3, -4, -4, -4, -4,
       -5, -5, -5, -5, -5, -5, -5, -5, -5, -5,
       -5, -5, -5, -5, -5, -5, -5, -5, -5, -5,
       -5, -4, -4, -4, -4, -3, -3, -3, -3, -2,
       -2, -2, -1, -1, -1, -1, 0, 0, 0, 1,
       1, 1, 2, 2, 2, 2, 3, 3, 3, 3,
       4, 4, 4, 4, 4, 4, 4, 4, 4, 4 >>

simFlow(x, noise) == cos20[x + 1] - 10 + noise

simPressure(x, noise) == cos5[x + 1] + 15 + noise

\* the values of <<uniform(-3,3), uniform(-6,6)>> followed: both lowest,
\* both in the middle, both highest; and the ticks whose noise is followed,
\* the others taking the middle: four ticks at the first downward
\* crossing and four at the first upward crossing of the wave
Noises == { <<-3, -6>>, <<0, 0>>, <<3, 6>> }

NoisyTicks == {16, 17, 18, 19, 83, 84, 85, 86}

nextPhaseWrapAfter100(x) == IF x >= 100 THEN 0 ELSE x + 1

\* self.xSim = 0 if (self.xSim >= 99) else self.xSim + 1
nextPhase(x) == IF x >= 99 THEN 0 ELSE x + 1

\* one timer tick without REALSENSORS
simTick(limit) ==
    /\ running
    /\ ticks < limit
    /\ \E noise \in (IF ticks + 1 \in NoisyTicks THEN Noises ELSE {<<0, 0>>}) :
          updateData(simFlow(xSim, noise[1]), simPressure(xSim, noise[2]))
    /\ xSim' = nextPhase(xSim)
    /\ ticks' = ticks + 1
    /\ UNCHANGED <<alarmVars, wireVars, dialogVars, pending, lastUI>>

TickSim == simTick(MaxTicksSim)

NextSim == TickSim

SpecSim == Init /\ [][NextSim]_vars

(***************************************************************************)
(* AlarmSettings, the modal dialog.  The timer keeps running while it is   *)
(* open.  A slider moves only to a value other than the one it holds; the  *)
(* values a user moves a slider to are drawn from small sets within the    *)
(* slider's range.                                                         *)
(***************************************************************************)
pPeakChoices == {5, 9}
PEEPChoices == {5}
vteMinChoices == {20}
vteMaxChoices == {vteCrossPoint}

\* QSlider.setValue keeps the value within the slider's range
Clamp(v, lo, hi) == IF v < lo THEN lo ELSE IF v > hi THEN hi ELSE v

DialogOp(name) == [op |-> name, pending |-> <<>>]

resetAlarmsKeepsSliders ==
    /\ UNCHANGED <<pPeakSlider, PEEPSlider, vteMinSlider, vteMaxSlider>>
    /\ pPeakChanged' = FALSE
    /\ PEEPChanged' = FALSE
    /\ vteMinChanged' = FALSE
    /\ vteMaxChanged' = FALSE
    /\ btnCancel' = FALSE
    /\ btnConfirm' = FALSE

\* the body of AlarmSettings.resetAlarms
resetAlarmsBody ==
    /\ pPeakSlider' = Clamp(pPeakMaxAlarm, 0, pPeakBarMaximum)
    /\ pPeakChanged' = FALSE
    /\ PEEPSlider' = Clamp(PEEPMaxAlarm, 0, PEEPBarMaximum)
    /\ PEEPChanged' = FALSE
    /\ vteMinSlider' = Clamp(vteMinAlarm, 0, vteCrossPoint)
    /\ vteMinChanged' = FALSE
    /\ vteMaxSlider' = Clamp(vteMaxAlarm, vteCrossPoint, vteBarMaximum)
    /\ vteMaxChanged' = FALSE
    /\ btnCancel' = FALSE
    /\ btnConfirm' = FALSE

\* MainWindow.showAlarmSettings: AlarmSettings.__init__, which ends with
\* resetAlarms(), then exec_()
showAlarmSettings ==
    /\ running
    /\ ~alarmSettings
    /\ alarmSettings' = TRUE
    /\ resetAlarmsBody
    /\ lastUI' = DialogOp("showAlarmSettings")
    /\ UNCHANGED <<graphVars, alarmVars, statVars, xSim, wireVars,
                   screenVars, emitted,
                   pending, ticks, finalized>>

\* the Cancel button, when enabled
resetAlarms ==
    /\ running
    /\ alarmSettings
    /\ btnCancel
    /\ resetAlarmsBody
    /\ lastUI' = [op |-> "resetAlarms",
                  pending |-> <<pPeakSlider, PEEPSlider,
                                vteMinSlider, vteMaxSlider>>]
    /\ UNCHANGED <<alarmSettings, graphVars, alarmVars, statVars, xSim, wireVars,
                   screenVars, emitted, pending, ticks, finalized>>

sliderMovedWritesThrough(newval) == pPeakMaxAlarm' = newval

\* what a slider's slot leaves of the main window's alarm settings
sliderMoved(newval) == pPeakMaxAlarm' = pPeakMaxAlarm

\* the pPeak slider is moved
changePPeak ==
    /\ running
    /\ alarmSettings
    /\ \E newval \in pPeakChoices \ {pPeakSlider} :
          /\ pPeakSlider' = newval
          /\ sliderMoved(newval)
    /\ IF ~pPeakChanged
       THEN pPeakChanged' = TRUE /\ btnCancel' = TRUE /\ btnConfirm' = TRUE
       ELSE UNCHANGED <<pPeakChanged, btnCancel, btnConfirm>>
    /\ lastUI' = DialogOp("changePPeak")
    /\ UNCHANGED <<alarmSettings, PEEPChanged, vteMinChanged, vteMaxChanged,
                   PEEPSlider, vteMinSlider, vteMaxSlider>>
    /\ UNCHANGED <<vteMaxAlarm, vteMinAlarm, PEEPMaxAlarm,
                   pPeakAlarmSet, vteAlarmSet, PEEPAlarmSet>>
    /\ UNCHANGED <<graphVars, statVars, xSim, wireVars, screenVars, emitted,
                   pending, ticks, finalized>>

\* the PEEP slider is moved
changePEEP ==
    /\ running
    /\ alarmSettings
    /\ \E newval \in PEEPChoices \ {PEEPSlider} : PEEPSlider' = newval
    /\ IF ~PEEPChanged
       THEN PEEPChanged' = TRUE /\ btnCancel' = TRUE /\ btnConfirm' = TRUE
       ELSE UNCHANGED <<PEEPChanged, btnCancel, btnConfirm>>
    /\ lastUI' = DialogOp("changePEEP")
    /\ UNCHANGED <<alarmSettings, pPeakChanged, vteMinChanged, vteMaxChanged,
                   pPeakSlider, vteMinSlider, vteMaxSlider>>
    /\ UNCHANGED <<graphVars, alarmVars, statVars, xSim, wireVars,
                   screenVars, emitted,
                   pending, ticks, finalized>>

\* the Vte Min slider is moved
changeVteMin ==
    /\ running
    /\ alarmSettings
    /\ \E newval \in vteMinChoices \ {vteMinSlider} : vteMinSlider' = newval
    /\ IF ~vteMinChanged
       THEN vteMinChanged' = TRUE /\ btnCancel' = TRUE /\ btnConfirm' = TRUE
       ELSE UNCHANGED <<vteMinChanged, btnCancel, btnConfirm>>
    /\ lastUI' = DialogOp("changeVteMin")
    /\ UNCHANGED <<alarmSettings, pPeakChanged, PEEPChanged, vteMaxChanged,
                   pPeakSlider, PEEPSlider, vteMaxSlider>>
    /\ UNCHANGED <<graphVars, alarmVars, statVars, xSim, wireVars,
                   screenVars, emitted,
                   pending, ticks, finalized>>

\* the Vte Max slider is moved
changeVteMax ==
    /\ running
    /\ alarmSettings
    /\ \E newval \in vteMaxChoices \ {vteMaxSlider} : vteMaxSlider' = newval
    /\ IF ~vteMaxChanged
       THEN vteMaxChanged' = TRUE /\ btnCancel' = TRUE /\ btnConfirm' = TRUE
       ELSE UNCHANGED <<vteMaxChanged, btnCancel, btnConfirm>>
    /\ lastUI' = DialogOp("changeVteMax")
    /\ UNCHANGED <<alarmSettings, pPeakChanged, PEEPChanged, vteMinChanged,
                   pPeakSlider, PEEPSlider, vteMinSlider>>
    /\ UNCHANGED <<graphVars, alarmVars, statVars, xSim, wireVars,
                   screenVars, emitted,
                   pending, ticks, finalized>>

armedWhenUnchangedCleared(was) == FALSE

\* updateAlarms writes pPeakAlarmSet under 'if self.pPeakChanged' only
armedWhenUnchanged(was) == was

commitsPEEPAlways == TRUE

\* if self.PEEPChanged:
commitsPEEP == PEEPChanged

\* the Confirm button, when enabled
updateAlarms ==
    /\ running
    /\ alarmSettings
    /\ btnConfirm
    /\ IF pPeakChanged
       THEN pPeakMaxAlarm' = pPeakSlider /\ pPeakAlarmSet' = TRUE
       ELSE /\ pPeakMaxAlarm' = pPeakMaxAlarm
            /\ pPeakAlarmSet' = armedWhenUnchanged(pPeakAlarmSet)
    /\ IF commitsPEEP
       THEN PEEPMaxAlarm' = PEEPSlider /\ PEEPAlarmSet' = TRUE
       ELSE UNCHANGED <<PEEPMaxAlarm, PEEPAlarmSet>>
    /\ IF vteMinChanged \/ vteMaxChanged
       THEN /\ vteMinAlarm' = vteMinSlider
            /\ vteMaxAlarm' = vteMaxSlider
            /\ vteAlarmSet' = TRUE
       ELSE UNCHANGED <<vteMinAlarm, vteMaxAlarm, vteAlarmSet>>
    /\ btnCancel' = FALSE
    /\ btnConfirm' = FALSE
    /\ lastUI' = DialogOp("updateAlarms")
    /\ UNCHANGED <<alarmSettings, pPeakChanged, PEEPChanged, vteMinChanged,
                   vteMaxChanged, pPeakSlider, PEEPSlider, vteMinSlider,
                   vteMaxSlider>>
    /\ UNCHANGED <<graphVars, statVars, xSim, wireVars, screenVars, emitted,
                   pending, ticks, finalized>>

\* the Home button: QDialog.reject closes the dialog without updating
reject ==
    /\ running
    /\ alarmSettings
    /\ alarmSettings' = FALSE
    /\ pPeakChanged' = FALSE /\ PEEPChanged' = FALSE
    /\ vteMinChanged' = FALSE /\ vteMaxChanged' = FALSE
    /\ pPeakSlider' = 0 /\ PEEPSlider' = 0
    /\ vteMinSlider' = 0 /\ vteMaxSlider' = 0
    /\ btnConfirm' = FALSE /\ btnCancel' = FALSE
    /\ lastUI' = [op |-> "reject",
                  pending |-> <<pPeakSlider, PEEPSlider,
                                vteMinSlider, vteMaxSlider>>]
    /\ UNCHANGED <<graphVars, alarmVars, statVars, xSim, wireVars,
                   screenVars, emitted,
                   pending, ticks, finalized>>

Tick == sensorTick(FewBreaths, MaxTicks)

Next ==
    \/ Tick
    \/ showAlarmSettings
    \/ changePPeak
    \/ changePEEP
    \/ changeVteMin
    \/ changeVteMax
    \/ updateAlarms
    \/ resetAlarms
    \/ reject

Spec == Init /\ [][Next]_vars

(***************************************************************************)
(* Properties                                                              *)
(***************************************************************************)

\* a step of the timer handler; the flow it sampled is prevFlow'
TickStep == ticks' = ticks + 1
UpwardCrossing == TickStep /\ prevFlow < 0 /\ prevFlow' >= 0

\* the number of consecutive samples < 0 that end at data[last]
RunOfNegatives(data, last) ==
    LET runs == {k \in 0..last : \A i \in (last - k + 1)..last : data[i] < 0}
    IN  CHOOSE k \in runs : \A m \in runs : m <= k

\* the sum of -data[i] over first..last
RECURSIVE SumOfOutflow(_, _, _)
SumOfOutflow(data, first, last) ==
    IF first > last THEN 0
    ELSE SumOfOutflow(data, first, last - 1) - data[last]

\* C1: the PEEP window and the Vte window change only on a tick whose flow
\* is >= 0 after a flow < 0 and at which the duration counter is above 20;
\* such a crossing with the counter at 20 or less leaves both windows as
\* they were and sets the accumulator and the counter to 0.
C1_FinalizeOnlyOnLongCycle ==
    [][ /\ (PEEP' # PEEP \/ expV' # expV \/ finalized' # finalized)
            => (UpwardCrossing /\ vteTimer > 20)
        /\ (UpwardCrossing /\ vteTimer <= 20)
            => (PEEP' = PEEP /\ expV' = expV /\ instV' = 0 /\ vteTimer' = 0)
      ]_vars

\* a crossing after exactly 20 ticks of expiration, following a breath of 21
\* ticks that was finalized: still one sample in each window
C1_Witness ==
    /\ flowData[graphPoints] >= 0
    /\ RunOfNegatives(flowData, graphPoints - 1) = 20
    /\ RunOfNegatives(flowData, graphPoints - 22) = 21
    /\ finalized = 1
    /\ Len(PEEP) = 1 /\ Len(expV) = 1
    /\ instV = 0 /\ vteTimer = 0

\* C7: the peak window never holds more than 20 samples, the PEEP window
\* and the Vte window never more than 5.
C7_WindowsWithinCapacity ==
    /\ Len(posPeaks) <= 20
    /\ Len(PEEP) <= 5
    /\ Len(expV) <= 5

\* all three windows full, after more appends than their capacity
C7_Witness ==
    /\ Len(posPeaks) = 20 /\ ticks > 20
    /\ Len(PEEP) = 5 /\ Len(expV) = 5 /\ finalized > 5

\* C8: an append to a full window drops exactly its oldest element: the
\* old contents without their first element, then one new value.
C8_FullWindowEvictsOldest ==
    [][ /\ (TickStep /\ Len(posPeaks) = 20)
            => /\ Len(posPeaks') = 20
               /\ SubSeq(posPeaks', 1, 19) = Tail(posPeaks)
               /\ posPeaks'[20] = Rat(max(pressData'))
        /\ (finalized' = finalized + 1 /\ Len(PEEP) = 5)
            => /\ Len(PEEP') = 5
               /\ SubSeq(PEEP', 1, 4) = Tail(PEEP)
        /\ (finalized' = finalized + 1 /\ Len(expV) = 5)
            => /\ Len(expV') = 5
               /\ SubSeq(expV', 1, 4) = Tail(expV)
      ]_vars

\* the sixth breath has been finalized and the windows hold unequal values
C8_Witness ==
    /\ finalized = 6
    /\ Len(PEEP) = 5 /\ PEEP[4] # PEEP[5]
    /\ Len(expV) = 5 /\ expV[4] # expV[5]
    /\ Len(posPeaks) = 20 /\ posPeaks[1] # posPeaks[20]

\* e is the arithmetic mean of w, and 0 when w is empty
IsMeanOf(e, w) ==
    /\ e[2] > 0
    /\ IF Len(w) = 0
       THEN e = <<0, 1>>
       ELSE e[1] * (sum(w)[2] * Len(w)) = sum(w)[1] * e[2]

\* C9: the values emitted for Ppeak, Vte and PEEP are the arithmetic means
\* of the peak, Vte and PEEP windows as they stand, and are 0 for an empty
\* window.
C9_EmittedIsWindowMean ==
    emitted.stats =>
        /\ IsMeanOf(emitted.Ppeak, posPeaks)
        /\ IsMeanOf(emitted.Vte, expV)
        /\ IsMeanOf(emitted.PEEP, PEEP)

\* an emission with unequal samples in every window
C9_Witness ==
    /\ emitted.stats
    /\ Len(expV) = 2 /\ expV[1] # expV[2]
    /\ Len(PEEP) = 2 /\ PEEP[1] # PEEP[2]
    /\ posPeaks[1] # posPeaks[Len(posPeaks)]

\* an emission before any breath: the Vte and PEEP windows are empty
C9_WitnessEmpty ==
    /\ emitted.stats
    /\ expV = <<>> /\ PEEP = <<>>
    /\ emitted.Vte = <<0, 1>> /\ emitted.PEEP = <<0, 1>>
    /\ emitted.Ppeak # <<0, 1>>

\* C10: the tidal volume appended when a breath is finalized is
\* 2286 * S / (N * 50), S the sum of -flow over the N ticks of the
\* expiration that just ended; 40 ticks at flow -10 give 457.2 = 2286/5.
C10_TidalVolume ==
    [][ finalized' = finalized + 1 =>
          LET N == RunOfNegatives(flowData, graphPoints)
              S == SumOfOutflow(flowData, graphPoints - N + 1, graphPoints)
              v == expV'[Len(expV')]
          IN  /\ N < graphPoints
              /\ v[2] > 0
              /\ v[1] * (N * 50) = 2286 * S * v[2]
              /\ (N = 40 /\ S = 400) => v = <<2286, 5>>
      ]_vars

\* a breath of 40 ticks at flow -10 has just been finalized
C10_Witness ==
    /\ finalized > 0
    /\ flowData[graphPoints] >= 0
    /\ RunOfNegatives(flowData, graphPoints - 1) = 40
    /\ \A i \in (graphPoints - 40)..(graphPoints - 1) : flowData[i] = -10
    /\ expV[Len(expV)] = <<2286, 5>>

\* the screen shows a violation for a parameter: the red frame, the
\* ringing icon
ShowsViolation(frame, icon) == frame = "alarmStyle" \/ icon = "alarmon"

\* q > k and q < k for a fraction q and a whole number k
Above(q, k) == q[1] > k * q[2]
Below(q, k) == q[1] < k * q[2]

\* C2: a parameter whose alarm is not set never shows a violation.
C2_UnarmedNeverViolates ==
    /\ ~pPeakAlarmSet => ~ShowsViolation(framePpeak, iconPPeakAlarm)
    /\ ~vteAlarmSet => ~ShowsViolation(frameVte, iconVteAlarm)
    /\ ~PEEPAlarmSet => ~ShowsViolation(framePEEP, iconPEEPAlarm)

\* an emission of three values above the default maxima, no alarm set
C2_Witness ==
    /\ emitted.stats
    /\ ~pPeakAlarmSet /\ ~vteAlarmSet /\ ~PEEPAlarmSet
    /\ Above(emitted.Ppeak, pPeakMaxAlarm)
    /\ Above(emitted.Vte, vteMaxAlarm)
    /\ Above(emitted.PEEP, PEEPMaxAlarm)
    /\ valPpeak = Text("--") /\ valVte = Text("---") /\ valPeep = Text("--")

\* C3: Cancel leaves the confirmed bounds and the armed flags as they were,
\* returns every slider to the confirmed bound and clears the changed flags.
C3_CancelRestoresConfirmed ==
    [][ resetAlarms =>
          /\ UNCHANGED alarmVars
          /\ pPeakSlider' = pPeakMaxAlarm
          /\ PEEPSlider' = PEEPMaxAlarm
          /\ vteMinSlider' = vteMinAlarm
          /\ vteMaxSlider' = vteMaxAlarm
          /\ ~pPeakChanged' /\ ~PEEPChanged'
          /\ ~vteMinChanged' /\ ~vteMaxChanged'
      ]_vars

\* confirm(max = 5), an edit to 9, then Cancel: the maximum in use is 5
C3_Witness ==
    /\ lastUI.op = "resetAlarms"
    /\ lastUI.pending[1] = 9
    /\ pPeakAlarmSet
    /\ pPeakMaxAlarm = 5
    /\ pPeakSlider = 5
    /\ ~pPeakChanged

\* C4: Confirm arms, and commits the slider values of, exactly the
\* parameters whose changed flag is set (Vte: either of its two flags);
\* the others keep their armed flag and bounds.
C4_ConfirmCommitsChanged ==
    [][ updateAlarms =>
          /\ IF pPeakChanged
             THEN pPeakAlarmSet' /\ pPeakMaxAlarm' = pPeakSlider
             ELSE UNCHANGED <<pPeakAlarmSet, pPeakMaxAlarm>>
          /\ IF PEEPChanged
             THEN PEEPAlarmSet' /\ PEEPMaxAlarm' = PEEPSlider
             ELSE UNCHANGED <<PEEPAlarmSet, PEEPMaxAlarm>>
          /\ IF vteMinChanged \/ vteMaxChanged
             THEN /\ vteAlarmSet'
                  /\ vteMinAlarm' = vteMinSlider
                  /\ vteMaxAlarm' = vteMaxSlider
             ELSE UNCHANGED <<vteAlarmSet, vteMinAlarm, vteMaxAlarm>>
      ]_vars

\* a Confirm with the pPeak and Vte Min sliders changed and the others not
C4_Witness ==
    /\ lastUI.op = "updateAlarms"
    /\ pPeakChanged /\ pPeakAlarmSet /\ pPeakMaxAlarm = 9
    /\ vteMinChanged /\ ~vteMaxChanged /\ vteAlarmSet
    /\ vteMinAlarm = 20 /\ vteMaxAlarm = 1000
    /\ ~PEEPChanged /\ ~PEEPAlarmSet /\ PEEPMaxAlarm = 25

\* C5: a slider change, and closing the dialog, change neither a bound in
\* use nor an armed flag; only Confirm changes them.
C5_OnlyConfirmArms ==
    [][ /\ (changePPeak \/ changePEEP \/ changeVteMin \/ changeVteMax
              \/ reject) => UNCHANGED alarmVars
        /\ (alarmVars' # alarmVars) => updateAlarms
      ]_vars

\* the dialog was closed with the pPeak slider at 9, never confirmed
C5_Witness ==
    /\ lastUI.op = "reject"
    /\ lastUI.pending[1] = 9
    /\ ~alarmSettings
    /\ pPeakMaxAlarm = 45
    /\ ~pPeakAlarmSet
    /\ emitted.stats /\ valPpeak = Text("--")

\* C6: at an emission an armed parameter shows a violation exactly if the
\* emitted value is above its maximum (Ppeak, PEEP) or outside its minimum
\* and maximum (Vte), whatever it showed before.
C6_ViolationIffOutOfBounds ==
    [][ (TickStep /\ emitted'.stats) =>
          /\ pPeakAlarmSet =>
               (ShowsViolation(framePpeak', iconPPeakAlarm')
                  <=> Above(emitted'.Ppeak, pPeakMaxAlarm))
          /\ PEEPAlarmSet =>
               (ShowsViolation(framePEEP', iconPEEPAlarm')
                  <=> Above(emitted'.PEEP, PEEPMaxAlarm))
          /\ vteAlarmSet =>
               (ShowsViolation(frameVte', iconVteAlarm')
                  <=> (Below(emitted'.Vte, vteMinAlarm)
                         \/ Above(emitted'.Vte, vteMaxAlarm)))
      ]_vars

\* an emission with all three armed: Ppeak above its maximum, PEEP at its
\* maximum, and Vte back within bounds after an emission below the minimum
C6_Witness ==
    /\ emitted.stats
    /\ finalized = 1
    /\ pPeakAlarmSet /\ Above(emitted.Ppeak, pPeakMaxAlarm)
    /\ framePpeak = "alarmStyle" /\ iconPPeakAlarm = "alarmon"
    /\ PEEPAlarmSet /\ emitted.PEEP = Rat(PEEPMaxAlarm)
    /\ framePEEP = "normalStyle" /\ iconPEEPAlarm = "alarmset"
    /\ vteAlarmSet /\ vteMinAlarm = 20
    /\ frameVte = "normalStyle" /\ iconVteAlarm = "alarmset"
    /\ valVte = Number(Rat(457))

\* C11: the value appended to the PEEP window when a breath is finalized is
\* the pressure of the tick before the tick of the upward crossing, not
\* the pressure of the crossing tick.
C11_PEEPIsPreviousPressure ==
    [][ finalized' = finalized + 1 =>
          /\ PEEP'[Len(PEEP')] = Rat(pressData[graphPoints])
          /\ (pressData'[graphPoints] # pressData[graphPoints])
                => PEEP'[Len(PEEP')] # Rat(pressData'[graphPoints])
      ]_vars

\* the first breath has just been finalized at a crossing whose pressure
\* differs from the pressure of the tick before
C11_Witness ==
    /\ finalized = 1
    /\ flowData[graphPoints] >= 0 /\ flowData[graphPoints - 1] < 0
    /\ pressData[graphPoints - 1] # pressData[graphPoints]
    /\ PEEP = <<Rat(pressData[graphPoints - 1])>>

\* C12: on every tick of an upward crossing, whether or not it finalizes
\* a breath, the accumulated flow and the duration counter are 0 when the
\* tick ends and the detector is in inspiration.
C12_UpwardCrossingResets ==
    [][ UpwardCrossing =>
          /\ instV' = 0 /\ vteTimer' = 0
          /\ insp' /\ ~Exp'
      ]_vars

\* an upward crossing after 20 ticks of expiration, which finalizes nothing
C12_Witness ==
    /\ ticks = 21
    /\ finalized = 0
    /\ flowData[graphPoints] >= 0
    /\ RunOfNegatives(flowData, graphPoints - 1) = 20
    /\ instV = 0 /\ vteTimer = 0
    /\ insp /\ ~Exp

\* a tick on which the flow goes from >= 0 to < 0
DownwardCrossing == TickStep /\ prevFlow >= 0 /\ prevFlow' < 0

\* C13: on every tick of a downward crossing the detector goes to
\* expiration and the PEEP and Vte windows stay as they are.
C13_DownwardCrossingKeepsWindows ==
    [][ DownwardCrossing =>
          /\ Exp' /\ ~insp'
          /\ UNCHANGED <<PEEP, expV>>
      ]_vars

\* the downward crossing that follows the first finalized breath
C13_Witness ==
    /\ finalized = 1
    /\ flowData[graphPoints] < 0 /\ flowData[graphPoints - 1] >= 0
    /\ Exp /\ ~insp
    /\ vteTimer = 1
    /\ Len(PEEP) = 1 /\ Len(expV) = 1

\* C14: flow is accumulated only on ticks whose flow is < 0, so every
\* amount added is > 0; the accumulator is never negative and every Vte
\* sample appended is > 0.
C14_AccumulatesPositive ==
    [][ TickStep =>
          /\ Exp' => (prevFlow' < 0 /\ instV' > instV)
          /\ ~Exp' => instV' = 0
          /\ instV' >= 0
          /\ \A i \in DOMAIN expV' : expV'[i][1] > 0 /\ expV'[i][2] > 0
      ]_vars

\* in the expiration after a finalized breath whose inspiration began at
\* flow 0
C14_Witness ==
    /\ finalized > 0
    /\ Exp /\ instV > 0
    /\ flowData[graphPoints] < 0
    /\ \E i \in 1..graphPoints : flowData[i] = 0 /\ i > graphPoints - 10
    /\ expV[Len(expV)][1] > 0

\* C15: a tick in expiration, the tick of the downward crossing included,
\* adds -flow to the accumulator and 1 to the counter; a tick in
\* inspiration leaves both as they are, and both are 0 in inspiration.
C15_AccumulationPerTick ==
    [][ TickStep =>
          /\ Exp' => /\ instV' = instV - prevFlow'
                     /\ vteTimer' = vteTimer + 1
          /\ (insp /\ insp') => UNCHANGED <<instV, vteTimer>>
          /\ insp' => (instV' = 0 /\ vteTimer' = 0)
      ]_vars

\* the third tick of the expiration that follows a finalized breath and
\* two ticks of inspiration
C15_Witness ==
    /\ Exp /\ vteTimer = 3 /\ finalized > 0
    /\ ticks > 40
    /\ flowData[graphPoints - 4] >= 0 /\ flowData[graphPoints - 3] >= 0
    /\ instV = - (flowData[graphPoints - 2] + flowData[graphPoints - 1]
                    + flowData[graphPoints])
    /\ flowData[graphPoints - 2] # flowData[graphPoints - 1]

\* posPeaks after one append of the maximum of the graph buffer
PeakAppended ==
    posPeaks' = (IF Len(posPeaks) = 20 THEN Tail(posPeaks) ELSE posPeaks)
                   \o <<Rat(max(pressData'))>>

\* C16, as stated: the peak window is appended once per emission, on the
\* tick of the emission, and on no tick in between.
C16_PeakAppendedPerEmission ==
    [][ TickStep =>
          /\ emitted'.stats => PeakAppended
          /\ ~emitted'.stats => posPeaks' = posPeaks
      ]_vars

\* C16: the peak window is appended exactly once on every tick, with the
\* maximum of the pressure graph buffer, whether or not the tick emits the
\* statistics or finalizes a breath.
C16_PeakAppendedEveryTick ==
    [][ TickStep => PeakAppended ]_vars

\* 21 ticks, none of them the tick of an emission or of a finalized
\* breath, have filled the window and evicted once; the last append is new
C16_Witness ==
    /\ ticks = 21
    /\ ~emitted.stats
    /\ finalized = 0
    /\ Len(posPeaks) = 20
    /\ posPeaks[19] # posPeaks[20]

\* C17: the statistics are emitted on tick n exactly if n is a positive
\* multiple of 5.
C17_EmittedEveryFifthTick ==
    emitted.stats <=> (ticks > 0 /\ ticks % 5 = 0)

\* a tick whose read of the flow or of the pressure came back short
FailedRead ==
    /\ TickStep
    /\ \/ Len(response'.flow) < flowResponseLength
       \/ Len(response'.pressure) < pressureResponseLength

\* C18: a tick whose sensor read fails is not aborted and skips the derived
\* updates: the breath state, the previous valid sample and the PEEP and
\* Vte windows are as before the tick, and the program goes on.
C18_FailedReadSkipsTick ==
    [][ FailedRead =>
          /\ raised' = ""
          /\ running'
          /\ UNCHANGED <<insp, Exp, instV, vteTimer, prevFlow, prevPress,
                         PEEP, expV>>
      ]_vars

\* C19: a response shorter than asked for (8 bytes of flow, 6 of
\* pressure), the empty one included, ends the decode with an error, never
\* with a number made of the bytes that came.
C19_ShortResponseIsError ==
    ticks > 0 =>
        /\ Len(response.flow) < flowResponseLength
              => get_flow(response.flow).raised # "" /\ raised # ""
        /\ Len(response.pressure) < pressureResponseLength
              => get_pressure(response.pressure).raised # "" /\ raised # ""

\* C20, as stated: after 600 ticks of the synthetic source a breath has
\* been finalized, the PEEP and Vte windows are not empty, and the labels
\* of Ppeak, Vte and PEEP show numbers, not placeholders.
C20_NumbersShownByTick600 ==
    ticks = 600 =>
        /\ finalized >= 1 /\ PEEP # <<>> /\ expV # <<>>
        /\ valPpeak.str = "" /\ valVte.str = "" /\ valPeep.str = ""

\* C20: after 600 ticks of the synthetic source, and from tick 88 on, a
\* breath has been finalized and the PEEP and Vte windows are not empty;
\* tick 600 emits values of Ppeak, Vte and PEEP above 0; with no alarm set
\* the labels show the placeholders.
C20_BreathFinalizedByTick600 ==
    /\ ticks >= 88 => (finalized >= 1 /\ PEEP # <<>> /\ expV # <<>>)
    /\ ticks = 600 =>
        /\ emitted.stats
        /\ Above(emitted.Ppeak, 0)
        /\ Above(emitted.Vte, 0)
        /\ Above(emitted.PEEP, 0)
        /\ valPpeak = Text("--") /\ valVte = Text("---")
        /\ valPeep = Text("--")

\* 600 ticks of the synthetic source: six breaths finalized, the first of
\* them under noise that differs from the later ones
C20_Witness ==
    /\ ticks = 600 /\ xSim = 0
    /\ finalized = 6
    /\ Len(PEEP) = 5 /\ Len(expV) = 5
    /\ emitted.stats /\ Above(emitted.Vte, 0)
    /\ valVte = Text("---")

\* C21: the phase counter of the synthetic source starts at 0, stays within
\* 0..99, goes up by exactly 1 on each tick and from 99 to 0: its period is
\* 100 ticks.
C21_PhaseHasPeriod100 ==
    [][ TickStep =>
          /\ xSim \in 0..99 /\ xSim' \in 0..99
          /\ xSim = ticks % 100
          /\ xSim' = (IF xSim = 99 THEN 0 ELSE xSim + 1)
      ]_vars

\* the counter is back at 0 for the second time, the buffers holding the
\* 100 samples of one whole period
C21_Witness ==
    /\ ticks = 200
    /\ xSim = 0
    /\ flowData[1] = simFlow(0, 0)
    /\ flowData[graphPoints] = simFlow(99, 0)

\* the count that get_flow divided by 1000 to give q
CountOf(q) == q[1] * (1000 \div q[2])

\* byte i, 0 the lowest, of the 32-bit two's complement of v
ByteOf(v, i) == (v \div <<1, 256, 65536, 16777216>>[i + 1]) % 256

\* C22: flow decoding turns the unsigned 32-bit count F of the response
\* into its two's-complement signed value (F, or F - 2^32 from 2^31 on),
\* within -2^31 .. 2^31 - 1, and divides it by 1000; the count 4294967295
\* (ff ff ff ff) decodes to -0.001.
C22_FlowIsTwosComplement ==
    (ticks > 0 /\ Len(response.flow) = flowResponseLength) =>
        LET out == get_flow(response.flow)
            v == CountOf(out.value)
        IN  /\ out.raised = "" /\ raised = ""
            /\ 1000 % out.value[2] = 0
            /\ \A i \in 0..3 : ByteOf(v, i) = response.flow[4 + i]
            /\ v < 0 <=> response.flow[7] >= 128
            /\ v >= -2147483647 - 1 /\ v <= 2147483647
            /\ (\A i \in 4..7 : response.flow[i] = 255)
                  => out.value = <<-1, 1000>>
            /\ prevFlow = Whole(out.value)

\* the response with count ff ff ff ff was read: -0.001 l/min, a flow < 0
C22_Witness ==
    /\ ticks = 1
    /\ response.flow = <<1, 16, 4, 255, 255, 255, 255, 40>>
    /\ get_flow(response.flow) = Returned(<<-1, 1000>>)
    /\ prevFlow < 0 /\ Exp

\* no tick so far had a flow < 0: the flow, 0 at the start, has not crossed
NoCrossingYet ==
    /\ ticks <= graphPoints
    /\ \A i \in 1..graphPoints : flowData[i] >= 0

\* C23: from the start until the first zero crossing of the flow the
\* detector is in neither inspiration nor expiration, nothing is
\* accumulated and nothing is appended to the PEEP and Vte windows.
C23_NoPhaseBeforeFirstCrossing ==
    NoCrossingYet =>
        /\ ~insp /\ ~Exp
        /\ instV = 0 /\ vteTimer = 0
        /\ PEEP = <<>> /\ expV = <<>>
        /\ finalized = 0

\* twelve ticks of inflow: the second emission, of a Vte and a PEEP of 0
C23_Witness ==
    /\ ticks = 12
    /\ NoCrossingYet
    /\ \A i \in (graphPoints - 11)..graphPoints : flowData[i] > 0
    /\ ~insp /\ ~Exp
    /\ emitted.stats
    /\ emitted.Vte = <<0, 1>> /\ emitted.PEEP = <<0, 1>>

\* m is the greatest element of data
IsGreatestOf(m, data) ==
    /\ \E i \in 1..Len(data) : data[i] = m
    /\ \A i \in 1..Len(data) : data[i] <= m

\* C24: the value appended to the peak window on a tick is the maximum of
\* the pressure graph buffer after the tick's pressure was shifted in; the
\* buffer always holds 100 entries, the latest samples with this tick's
\* last, in front of them the zeros of the start until 100 samples came.
C24_PeakIsMaxOfShiftedBuffer ==
    [][ TickStep =>
          /\ Len(pressData) = 100 /\ Len(pressData') = 100
          /\ pressData'[100] = prevPress'
          /\ \A i \in 1..99 : pressData'[i] = pressData[i + 1]
          /\ \A i \in 1..100 : (i <= 100 - ticks') => pressData'[i] = 0
          /\ \E m \in {pressData'[i] : i \in 1..100} :
                /\ IsGreatestOf(m, pressData')
                /\ posPeaks'[Len(posPeaks')] = Rat(m)
      ]_vars

\* the tick after an inspiration at pressure 20: the maximum appended is
\* not this tick's sample, and zeros of the start are still in the buffer
C24_Witness ==
    /\ ticks < graphPoints
    /\ pressData[1] = 0
    /\ pressData[graphPoints - 1] = 20
    /\ pressData[graphPoints] < 20
    /\ posPeaks[Len(posPeaks)] = Rat(20)

\* C25: the inspiration flag and the expiration flag are never both true;
\* from the first zero crossing on exactly one of them is true; the two
\* crossing conditions never hold on the same tick.
C25_OnePhaseAtATime ==
    [][ TickStep =>
          /\ ~(insp' /\ Exp')
          /\ (insp \/ Exp \/ UpwardCrossing \/ DownwardCrossing)
                => (insp' # Exp')
          /\ ~(upwardCrossing(prevFlow', prevFlow)
                 /\ downwardCrossing(prevFlow', prevFlow))
      ]_vars

\* in inspiration, entered at a flow of exactly 0 after a finalized breath
C25_Witness ==
    /\ finalized > 0
    /\ flowData[graphPoints] = 0 /\ flowData[graphPoints - 1] < 0
    /\ insp /\ ~Exp

\* C26: a parameter's alarm, once set by a Confirm, is never unset again by
\* any tick, slider change, Confirm, Cancel, or opening or closing of the
\* dialog.
C26_ArmingIsMonotonic ==
    [][ /\ pPeakAlarmSet => pPeakAlarmSet'
        /\ vteAlarmSet => vteAlarmSet'
        /\ PEEPAlarmSet => PEEPAlarmSet'
      ]_vars

\* the pPeak alarm, set by an earlier Confirm, after the dialog was opened
\* anew and a Confirm of a change to PEEP alone
C26_Witness ==
    /\ lastUI.op = "updateAlarms"
    /\ pPeakAlarmSet /\ ~pPeakChanged
    /\ PEEPChanged /\ PEEPAlarmSet
=============================================================================
